---- MODULE Spec2Model ----
(***************************************************************************)
(* Flow-matrix reconciliation (update_matrix.py, UpdateMatrix.py), zone    *)
(* resolution (ip_to_zone of DataPopulation.py and UpdateMatrix.py) and    *)
(* route resolution (Modules/Stormshield/next_hop_calculator.py).          *)
(*                                                                         *)
(* A DataFrame is a record [cols, rows]: cols is the ordered list of       *)
(* column names, rows the ordered list of rows.  A row is a function on    *)
(* AllCols; a column that the frame does not have, and a missing cell,     *)
(* hold NaN (0 in the numeric ID column).  The library behaviour modelled  *)
(* is that of pandas 1.x/2.x, under which the scripts run to completion.   *)
(***************************************************************************)
EXTENDS Integers, Sequences, FiniteSets, TLC

VARIABLES
    dirExists,   \* Flow_Matrix/ exists
    files,       \* Flow_Matrix/: version <<major, minor>> -> file content
    csv,         \* Input/flows.csv: "missing" or a frame
    subnetFile,  \* Input/cmdb_network.csv is present
    variant,     \* "plain" (update_matrix.py) or "zone" (UpdateMatrix.py)
    pc,          \* position of the running script
    before,      \* Flow_Matrix/ as it was when the running (or last) run started
    isRerun,     \* the running (or last) run started with rerun true
    df_csv,      \* the script's df_csv
    df_excel,    \* the script's df_excel
    last_excel,  \* the script's last_excel (<<>> for None)
    df_updated,  \* the script's df_updated
    new_name,    \* the script's NEW_EXCEL_NAME, as a version
    outcome,     \* how the last run ended
    edited,      \* flows.csv was replaced or removed since the last run started
    rerun,       \* flows.csv is the file the last successful run merged
    runs,        \* number of runs started
    rowsUsed,    \* number of rows put into flows.csv so far
    zIp,         \* ip_to_zone: the address text
    zTable,      \* ip_to_zone: the subnet table
    zRow,        \* ip_to_zone of DataPopulation.py: index of the row returned
    zZone,       \* ip_to_zone of UpdateMatrix.py: the zone returned
    zCalls,      \* which of the two ip_to_zone have been called
    source_ip,   \* calculate_next_hop: the source address text
    dest_ip,     \* calculate_next_hop, find_matching_route: the destination text
    routes,      \* the routing table: a list of route entries
    matching_route, \* find_matching_route: index of the route returned
    next_hop,    \* calculate_next_hop: result['next_hop']
    rCalls       \* which of the two functions have been called

runVars == <<dirExists, files, csv, subnetFile, variant, pc, before, isRerun, df_csv,
             df_excel, last_excel, df_updated, new_name, outcome, edited, rerun, runs, rowsUsed>>

zoneVars == <<zIp, zTable, zRow, zZone, zCalls>>

routeVars == <<source_ip, dest_ip, routes, matching_route, next_hop, rCalls>>

vars == <<runVars, zoneVars, routeVars>>

(***************************************************************************)
(* Bounds                                                                  *)
(***************************************************************************)
MaxRuns == 2
MaxRows == 3
MaxTable == 2
MaxRoutes == 3

(***************************************************************************)
(* Cells, rows, frames                                                     *)
(***************************************************************************)
NaN == "<NA>"

KEY_COLUMNS == <<"source", "destination", "port", "protocol">>

AllCols == {"ID", "action", "source", "zone_source", "destination",
            "zone_destination", "port", "protocol", "description"}

Missing(c) == IF c = "ID" THEN 0 ELSE NaN

NaNRow == [c \in AllCols |-> Missing(c)]

Range(s) == {s[i] : i \in DOMAIN s}

IndexOf(s, x) == CHOOSE i \in DOMAIN s : s[i] = x

Without(s, x) == SelectSeq(s, LAMBDA y : y # x)

\* list.insert(pos, x), pos 0-based and clamped to the length as Python does
InsertAt(s, pos, x) ==
    LET p == IF pos > Len(s) THEN Len(s) ELSE pos
    IN  SubSeq(s, 1, p) \o <<x>> \o SubSeq(s, p + 1, Len(s))

Key(r) == <<r["source"], r["destination"], r["port"], r["protocol"]>>

\* str.lower() on the texts of the model; a missing cell stays missing
Lower(s) ==
    CASE s = "SUPPRIMER" -> "supprimer"
      [] s = "Supprimer" -> "supprimer"
      [] s = "BLOCK"     -> "block"
      [] s = "Block"     -> "block"
      [] OTHER           -> s

\* index labels: a tuple of the key columns (set_index) or a position (RangeIndex)
KeyLabel(r) == [kind |-> "key", pos |-> 0, key |-> Key(r)]
PosLabel(i) == [kind |-> "pos", pos |-> i, key |-> <<>>]

EmptyFrame(cols) == [cols |-> cols, rows |-> <<>>]

(***************************************************************************)
(* Versions and version files                                              *)
(***************************************************************************)
None == <<>>

\* version_key: tuples of ints compare lexicographically
VersionLess(a, b) == a[1] < b[1] \/ (a[1] = b[1] /\ a[2] < b[2])

\* the decimal text of n, as character codes
RECURSIVE DigitCodes(_)
DigitCodes(n) == IF n < 10 THEN <<48 + n>> ELSE Append(DigitCodes(n \div 10), 48 + (n % 10))

\* "<major>.<minor>." as character codes: the part of the file name that varies
VersionText(v) == DigitCodes(v[1]) \o <<46>> \o DigitCodes(v[2]) \o <<46>>

\* str < str
TextLess(s, t) ==
    \E i \in 1..Len(t) :
        /\ \A j \in 1..(i - 1) : j <= Len(s) /\ s[j] = t[j]
        /\ (i > Len(s) \/ s[i] < t[i])

\* a latest-file choice that orders the names as text
LatestByText(fs) ==
    IF DOMAIN fs = {} THEN None
    ELSE CHOOSE v \in DOMAIN fs :
            \A w \in DOMAIN fs : ~TextLess(VersionText(v), VersionText(w))

\* files.sort(key=version_key, reverse=True); files[0]
LatestOf(fs) ==
    IF DOMAIN fs = {} THEN None
    ELSE CHOOSE v \in DOMAIN fs : \A w \in DOMAIN fs : ~VersionLess(v, w)

\* get_latest_matrix: None when the directory is missing or holds no version
get_latest_matrix == IF ~dirExists THEN None ELSE LatestOf(files)

\* a next version that keeps the minor number
SameVersion(filename) == IF filename # None THEN filename ELSE <<1, 0>>

next_version(filename) ==
    IF filename # None THEN <<filename[1], filename[2] + 1>> ELSE <<1, 0>>

\* a file whose write did not complete
PartialFile == [complete |-> FALSE, cols |-> <<>>, rows |-> <<>>]

\* DataFrame.to_excel(index=False): a missing cell and '' are both an empty cell
to_excel(df) ==
    [complete |-> TRUE,
     cols     |-> df.cols,
     rows     |-> [i \in DOMAIN df.rows |->
                     [c \in AllCols |->
                        IF c = "ID" THEN df.rows[i][c]
                        ELSE IF df.rows[i][c] = NaN THEN "" ELSE df.rows[i][c]]]]

\* pd.read_excel: an empty cell is read as NaN
read_excel(f) ==
    [cols |-> f.cols,
     rows |-> [i \in DOMAIN f.rows |->
                 [c \in AllCols |->
                    IF c = "ID" THEN f.rows[i][c]
                    ELSE IF f.rows[i][c] = "" THEN NaN ELSE f.rows[i][c]]]]

(***************************************************************************)
(* The merge (update_matrix.py 115-173, UpdateMatrix.py 175-249)           *)
(***************************************************************************)
HasCol(df, c) == c \in Range(df.cols)

\* other.reindex(self.index): the row of other carrying each label, else NaN
Reindex(rows, labels, target) ==
    [i \in DOMAIN target |->
        IF \E j \in DOMAIN rows : labels[j] = target[i]
        THEN rows[CHOOSE j \in DOMAIN rows : labels[j] = target[i]]
        ELSE NaNRow]

\* DataFrame.update(other): aligned on the index labels, non-NaN cells of
\* other overwrite the cells of self in the columns both frames have
Update(self, selfLabels, other, otherLabels) ==
    LET that == Reindex(other.rows, otherLabels, selfLabels)
    IN  [self EXCEPT !.rows =
            [i \in DOMAIN self.rows |->
                [c \in AllCols |->
                    IF HasCol(self, c) /\ HasCol(other, c) /\ that[i][c] # Missing(c)
                    THEN that[i][c]
                    ELSE self.rows[i][c]]]]

\* df_excel.set_index(KEY_COLUMNS, inplace=True, drop=False)
KeyLabels(df) == [i \in DOMAIN df.rows |-> KeyLabel(df.rows[i])]

\* the RangeIndex of read_csv; df_csv.set_index(..., inplace=False) leaves it
RangeLabels(df) == [i \in DOMAIN df.rows |-> PosLabel(i - 1)]

\* df_excel.update(df_csv)
UpdateExisting(excel, df) == Update(excel, KeyLabels(excel), df, RangeLabels(df))

Keys(rows) == {Key(rows[i]) : i \in DOMAIN rows}

\* new_rows = df_csv[~df_csv.set_index(KEY_COLUMNS).index.isin(df_excel.index)]
NewRows(excel, df) ==
    SelectSeq(df.rows, LAMBDA r : Key(r) \notin Keys(excel.rows))

\* pd.concat([a, b]): the columns of a, then those only b has
Concat(a, b) ==
    [cols |-> a.cols \o SelectSeq(b.cols, LAMBDA c : c \notin Range(a.cols)),
     rows |-> a.rows \o b.rows]

\* Series.str raises AttributeError on a non-empty column that holds no text
StrFails(df, c) ==
    /\ df.rows # <<>>
    /\ \A i \in DOMAIN df.rows : df.rows[i][c] = NaN

\* a removal test that compares the action text as it is written
ToRemoveExact(df) ==
    SelectSeq(df.rows, LAMBDA r : r["action"] = "supprimer")

\* to_remove = df_csv[df_csv['action'].str.lower() == 'supprimer']
ToRemove(df) ==
    SelectSeq(df.rows, LAMBDA r : Lower(r["action"]) = "supprimer")

\* lines 126-130: drop every row whose key is removal-marked
RemoveMarked(upd, df) ==
    IF HasCol(df, "action")
    THEN [upd EXCEPT !.rows =
            SelectSeq(upd.rows, LAMBDA r : Key(r) \notin Keys(ToRemove(df)))]
    ELSE upd

\* lines 137-139: drop ID, insert it first as 1..len
AssignID(df) ==
    [cols |-> <<"ID">> \o Without(df.cols, "ID"),
     rows |-> [i \in DOMAIN df.rows |-> [df.rows[i] EXCEPT !["ID"] = i]]]

\* lines 144-146: action becomes the second column
MoveAction(df) ==
    IF HasCol(df, "action")
    THEN [df EXCEPT !.cols = InsertAt(Without(df.cols, "action"), 1, "action")]
    ELSE df

IsBlockAll(r) ==
    Lower(r["action"]) = "block" /\ r["source"] = "any" /\ r["destination"] = "any"

\* a block-all removal that keeps the old rows
KeepBlockAll(df) == df

\* lines 151-156: drop the old block-all rows
DropBlockAll(df) ==
    IF HasCol(df, "action") /\ HasCol(df, "source") /\ HasCol(df, "destination")
    THEN [df EXCEPT !.rows = SelectSeq(df.rows, LAMBDA r : ~IsBlockAll(r))]
    ELSE df

\* lines 161-171: the block-all rule for the columns of df
block_all_rule(df) ==
    [c \in AllCols |->
        CASE c = "ID" -> Len(df.rows) + 1
          [] c = "action" -> "block"
          [] c \in Range(KEY_COLUMNS) -> "any"
          [] c \in {"zone_source", "zone_destination"} ->
                IF HasCol(df, c) THEN "any" ELSE NaN
          [] OTHER -> IF HasCol(df, c) THEN "" ELSE NaN]

\* line 173: append the rule; its keys that are no column yet become columns
AppendBlockAll(df) ==
    Concat(df, [cols |-> <<"source", "destination", "port", "protocol", "action", "ID">>,
                rows |-> <<block_all_rule(df)>>])

\* UpdateMatrix.py 234-249: ID first, action second, each zone column after
\* its address column
MoveAfter(cols, c, after) ==
    IF c \in Range(cols) /\ after \in Range(cols)
    THEN InsertAt(Without(cols, c), IndexOf(cols, after), c)
    ELSE cols

ReorderColumns(df) ==
    LET c1 == <<"ID">> \o Without(df.cols, "ID")
        c2 == InsertAt(Without(c1, "action"), 1, "action")
        c3 == MoveAfter(c2, "zone_source", "source")
        c4 == MoveAfter(c3, "zone_destination", "destination")
    IN  [df EXCEPT !.cols = c4]

\* a merge that puts the new flows before the existing ones
PrependFlows(excel, df) ==
    [cols |-> Concat(UpdateExisting(excel, df), df).cols,
     rows |-> NewRows(excel, df) \o UpdateExisting(excel, df).rows]

\* lines 115-123: update the existing flows, append the new ones
MergeFlows(excel, df) == Concat(UpdateExisting(excel, df), [df EXCEPT !.rows = NewRows(excel, df)])

\* lines 137-173: number the rows, then replace the block-all rule
NumberAndBlock(upd) == AppendBlockAll(DropBlockAll(MoveAction(AssignID(upd))))

\* lines 115-173 (and 234-249 of UpdateMatrix.py) on df_excel and df_csv
Reconcile(excel, df, v) ==
    LET done == NumberAndBlock(RemoveMarked(MergeFlows(excel, df), df))
    IN  IF v = "zone" THEN ReorderColumns(done) ELSE done

(***************************************************************************)
(* Zone resolution (DataPopulation.py 52-72, UpdateMatrix.py 90-110)       *)
(***************************************************************************)
\* the dotted-quad fields of an address text; <<>> when it is no dotted quad
Octets(text) ==
    CASE text = "10.1.2.3"    -> <<10, 1, 2, 3>>
      [] text = "10.200.0.1"  -> <<10, 200, 0, 1>>
      [] text = "192.168.1.5" -> <<192, 168, 1, 5>>
      [] text = "10.1.2.300"  -> <<10, 1, 2, 300>>
      [] text = "10.0.0.0"    -> <<10, 0, 0, 0>>
      [] text = "10.1.0.0"    -> <<10, 1, 0, 0>>
      [] text = "192.168.1.0" -> <<192, 168, 1, 0>>
      [] OTHER                -> <<>>

\* ipaddress.ip_address(text) raises ValueError
AddressError(text) ==
    Len(Octets(text)) # 4 \/ \E i \in DOMAIN Octets(text) : Octets(text)[i] > 255

\* ipaddress.ip_address(text): the 32-bit address as its two 16-bit halves
ip_address(text) ==
    LET o == Octets(text)
    IN  [hi |-> o[1] * 256 + o[2], lo |-> o[3] * 256 + o[4]]

\* the address and prefix length of a network text
NetworkParts(text) ==
    CASE text = "10.0.0.0/8"     -> [addr |-> "10.0.0.0", len |-> 8]
      [] text = "10.1.0.0/16"    -> [addr |-> "10.1.0.0", len |-> 16]
      [] text = "192.168.1.0/24" -> [addr |-> "192.168.1.0", len |-> 24]
      [] text = "10.1.2.3/16"    -> [addr |-> "10.1.2.3", len |-> 16]
      [] OTHER                   -> [addr |-> text, len |-> 32]

\* the address with its host bits (those after the first len) cleared
NetworkOf(ip, len) ==
    IF len <= 16
    THEN [hi |-> ip.hi - (ip.hi % (2 ^ (16 - len))), lo |-> 0]
    ELSE [hi |-> ip.hi, lo |-> ip.lo - (ip.lo % (2 ^ (32 - len)))]

\* ipaddress.ip_network(text) raises ValueError: bad address, or host bits set
NetworkError(text) ==
    LET n == NetworkParts(text)
    IN  \/ AddressError(n.addr)
        \/ n.len \notin 0..32
        \/ NetworkOf(ip_address(n.addr), n.len) # ip_address(n.addr)

\* ip_addr in network
InNetwork(ip, text) ==
    LET n == NetworkParts(text)
    IN  NetworkOf(ip, n.len) = ip_address(n.addr)

NotFound == 0
Raised == -1

\* the for loop of ip_to_zone from row i on: the index of the row returned,
\* NotFound, or Raised when ip_network raises
RECURSIVE ScanFrom(_, _, _)
ScanFrom(ip, subnet_df, i) ==
    IF i > Len(subnet_df) THEN NotFound
    ELSE IF NetworkError(subnet_df[i]["sous-reseau"]) THEN Raised
    ELSE IF InNetwork(ip, subnet_df[i]["sous-reseau"]) THEN i
    ELSE ScanFrom(ip, subnet_df, i + 1)

\* a resolver that prefers the longest containing prefix
MostSpecific(ip, subnet_df) ==
    IF AddressError(ip) THEN NotFound
    ELSE IF \E i \in DOMAIN subnet_df : NetworkError(subnet_df[i]["sous-reseau"]) THEN Raised
    ELSE LET hits == {i \in DOMAIN subnet_df : InNetwork(ip_address(ip), subnet_df[i]["sous-reseau"])}
         IN  IF hits = {} THEN NotFound
             ELSE CHOOSE i \in hits : \A j \in hits :
                    \/ NetworkParts(subnet_df[i]["sous-reseau"]).len > NetworkParts(subnet_df[j]["sous-reseau"]).len
                    \/ (NetworkParts(subnet_df[i]["sous-reseau"]).len = NetworkParts(subnet_df[j]["sous-reseau"]).len /\ i <= j)

\* ip_to_zone, as the index of the subnet row found
ZoneRow(ip, subnet_df) ==
    IF AddressError(ip) THEN NotFound ELSE ScanFrom(ip_address(ip), subnet_df, 1)

\* DataPopulation.ip_to_zone: the row itself
ip_to_zone_row(ip, subnet_df) == ZoneRow(ip, subnet_df)

\* UpdateMatrix.ip_to_zone: row['zone']; None is NaN in a column
ip_to_zone(ip, subnet_df) ==
    LET i == ZoneRow(ip, subnet_df)
    IN  CASE i = NotFound -> NaN
          [] i = Raised   -> "ValueError"
          [] OTHER        -> subnet_df[i]["zone"]

SubnetRow(net, zone, type) == [c \in {"sous-reseau", "zone", "type"} |->
    CASE c = "sous-reseau" -> net [] c = "zone" -> zone [] OTHER -> type]

SubnetRows ==
    {SubnetRow("10.0.0.0/8", "ZoneA", "Production"),
     SubnetRow("10.1.0.0/16", "ZoneB", "Admin"),
     SubnetRow("192.168.1.0/24", "ZoneC", "Production"),
     SubnetRow("10.1.2.3/16", "ZoneD", "Admin")}

AddressTexts == {"10.1.2.3", "10.200.0.1", "192.168.1.5", "10.1.2.300", "any"}

SeqsUpTo(S, n) == UNION {[1..k -> S] : k \in 0..n}

\* the subnet table the reconcile runs read from cmdb_network.csv
df_subnets == <<SubnetRow("10.0.0.0/8", "ZoneA", "Production"),
                SubnetRow("10.1.0.0/16", "ZoneB", "Admin")>>

(***************************************************************************)
(* Route resolution (next_hop_calculator.py 65-165)                        *)
(***************************************************************************)
\* a key that a route entry does not have
NoKey == "<no key>"

\* an entry of routing_table_FW-1.json
Route(address, gateway) == [Address |-> address, Gateway |-> gateway]

\* find_matching_route returns None
NoRoute == 0

\* is_same_network with subnet_mask=24; any exception gives False
is_same_network(src, dst) ==
    IF AddressError(src) \/ AddressError(dst) THEN FALSE
    ELSE NetworkOf(ip_address(dst), 24) = NetworkOf(ip_address(src), 24)

\* lines 101-109: the entry is appended to sorted_routes (nothing is raised)
RouteParses(route) ==
    /\ route.Address # NoKey
    /\ (route.Address = "0.0.0.0/0" \/ ~NetworkError(route.Address))

\* lines 104, 107: the prefix length appended with the entry
PrefixLen(route) ==
    IF route.Address = "0.0.0.0/0" THEN 0 ELSE NetworkParts(route.Address).len

\* a first loop without its try: one bad entry ends the lookup with None
ParsedOrAbort(table) ==
    IF \E i \in DOMAIN table : ~RouteParses(table[i]) THEN <<>>
    ELSE [i \in DOMAIN table |-> i]

\* lines 99-109: sorted_routes before the sort, as indices into the table
ParsedRoutes(table) ==
    SelectSeq([i \in DOMAIN table |-> i], LAMBDA i : RouteParses(table[i]))

\* the entries of idx with prefix length len, then those with shorter ones
RECURSIVE SortFrom(_, _, _)
SortFrom(idx, table, len) ==
    IF len < 0 THEN <<>>
    ELSE SelectSeq(idx, LAMBDA i : PrefixLen(table[i]) = len) \o SortFrom(idx, table, len - 1)

\* a lookup that leaves the entries in table order
TableOrder(idx, table) == idx

\* line 112: sort(key=prefix length, reverse=True); the sort is stable
SortByPrefix(idx, table) == SortFrom(idx, table, 32)

\* lines 117-123: the entry matches the destination
RouteMatches(dest_addr, route) ==
    route.Address = "0.0.0.0/0" \/ InNetwork(dest_addr, route.Address)

\* lines 115-127: the first matching entry of sorted_routes
RECURSIVE FirstMatch(_, _, _)
FirstMatch(dest_addr, sorted, table) ==
    IF sorted = <<>> THEN NoRoute
    ELSE IF RouteMatches(dest_addr, table[Head(sorted)]) THEN Head(sorted)
    ELSE FirstMatch(dest_addr, Tail(sorted), table)

\* find_matching_route, as the index of the route returned
find_matching_route(dst, table) ==
    IF AddressError(dst) THEN NoRoute
    ELSE FirstMatch(ip_address(dst), SortByPrefix(ParsedRoutes(table), table), table)

\* a gateway test that looks at the key only
HasGatewayKey(route) == route.Gateway # NoKey

\* line 157: 'Gateway' in matching_route and matching_route['Gateway']
HasGateway(route) == route.Gateway # NoKey /\ route.Gateway # ""

\* a next hop that asks the routing table before the same-network test
RouteBeforeDirect(src, dst, table) ==
    LET m == find_matching_route(dst, table)
    IN  IF m # NoRoute
        THEN IF HasGateway(table[m]) THEN table[m].Gateway ELSE "DIRECT"
        ELSE IF is_same_network(src, dst) THEN "DIRECT" ELSE "NO_ROUTE"

\* calculate_next_hop: result['next_hop']
calculate_next_hop(src, dst, table) ==
    IF is_same_network(src, dst) THEN "DIRECT"
    ELSE LET m == find_matching_route(dst, table)
         IN  IF m # NoRoute
             THEN IF HasGateway(table[m]) THEN table[m].Gateway ELSE "DIRECT"
             ELSE "NO_ROUTE"

\* entries a routing table is made of: well formed with and without gateway,
\* host bits set, no network text, no Address key
RouteEntries ==
    {Route("0.0.0.0/0", "9.9.9.9"), Route("0.0.0.0/0", NoKey),
     Route("192.168.1.0/24", "10.0.0.1"), Route("192.168.1.0/24", ""),
     Route("10.0.0.0/8", "10.0.0.2"), Route("10.1.0.0/16", "10.0.0.3"),
     Route("10.1.2.3/16", "10.0.0.4"), Route("garbage", "10.0.0.5"),
     Route(NoKey, "10.0.0.6")}

SourceTexts == {"192.168.1.5", "10.1.2.3", "any"}

DestTexts == {"192.168.1.5", "192.168.1.0", "10.1.2.3", "10.200.0.1", "10.1.2.300"}

(***************************************************************************)
(* Inputs of the reconcile runs                                            *)
(***************************************************************************)
CsvCols(hasAction) ==
    IF hasAction
    THEN <<"source", "destination", "port", "protocol", "action", "description">>
    ELSE <<"source", "destination", "port", "protocol", "description">>

MkRow(key, action, desc) ==
    [c \in AllCols |->
        CASE c = "source"      -> key[1]
          [] c = "destination" -> key[2]
          [] c = "port"        -> key[3]
          [] c = "protocol"    -> key[4]
          [] c = "action"      -> action
          [] c = "description" -> desc
          [] OTHER             -> Missing(c)]

K1 == <<"10.1.2.3", "10.200.0.1", "80", "tcp">>
K2 == <<"192.168.1.5", "10.1.2.3", "443", "tcp">>
KAny == <<"any", "any", "any", "any">>
KAnyPort == <<"any", "any", "80", "tcp">>

\* rows of a flows.csv that has an action column
ActionRows ==
    {MkRow(K1, "allow", "web"), MkRow(K1, "allow", "web-v2"), MkRow(K1, "Supprimer", NaN),
     MkRow(K2, NaN, "db"), MkRow(KAny, "SUPPRIMER", NaN), MkRow(KAnyPort, "Block", NaN)}

\* rows of a flows.csv that has none
PlainRows == {MkRow(K1, NaN, "web"), MkRow(K2, NaN, "db")}

Batches(n) ==
    {[cols |-> CsvCols(TRUE), rows |-> r] : r \in SeqsUpTo(ActionRows, n)}
    \cup {[cols |-> CsvCols(FALSE), rows |-> r] : r \in SeqsUpTo(PlainRows, n)}

\* insert_column_after: the column list with new_col_name after after_col
insert_column_after(cols, new_col_name, after_col) ==
    InsertAt(cols, IndexOf(cols, after_col), new_col_name)

\* UpdateMatrix.py 155-159: the zone columns of df_csv
Enrich(df) ==
    [cols |-> insert_column_after(insert_column_after(df.cols, "zone_source", "source"),
                                  "zone_destination", "destination"),
     rows |-> [i \in DOMAIN df.rows |->
                 [df.rows[i] EXCEPT
                    !["zone_source"] = ip_to_zone(df.rows[i]["source"], df_subnets),
                    !["zone_destination"] = ip_to_zone(df.rows[i]["destination"], df_subnets)]]]

\* df_csv as the script holds it before the merge
LoadCsv(v, file) == IF v = "zone" THEN Enrich(file) ELSE file

NoFrame == EmptyFrame(<<>>)

EmptyDir == [v \in {} |-> PartialFile]

\* the matrices of earlier runs, as the scripts write them
FirstMatrix(v) ==
    LET df == LoadCsv(v, [cols |-> CsvCols(TRUE), rows |-> <<MkRow(K1, "allow", "web")>>])
    IN  to_excel(Reconcile(EmptyFrame(df.cols), df, v))

SecondMatrix(v) ==
    LET df == LoadCsv(v, [cols |-> CsvCols(TRUE), rows |-> <<MkRow(K1, "allow", "web")>>])
    IN  to_excel(Reconcile(read_excel(FirstMatrix(v)), df, v))

InitDirs(v) ==
    {EmptyDir,
     (<<1, 9>> :> FirstMatrix(v)) @@ (<<1, 10>> :> SecondMatrix(v)),
     (<<1, 2>> :> FirstMatrix(v)) @@ (<<2, 0>> :> SecondMatrix(v))}

(***************************************************************************)
(* The reconcile runs                                                      *)
(***************************************************************************)
InitZoneIdle ==
    /\ zIp = "any"
    /\ zTable = <<>>
    /\ zRow = NotFound
    /\ zZone = NaN
    /\ zCalls = {}

InitRouteIdle ==
    /\ source_ip = "any"
    /\ dest_ip = "any"
    /\ routes = <<>>
    /\ matching_route = NoRoute
    /\ next_hop = "NO_ROUTE"
    /\ rCalls = {}

\* no run has started
InitRunIdle ==
    /\ csv = [present |-> FALSE, df |-> NoFrame]
    /\ pc = "idle"
    /\ before = files
    /\ isRerun = FALSE
    /\ df_csv = NoFrame
    /\ df_excel = NoFrame
    /\ last_excel = None
    /\ df_updated = NoFrame
    /\ new_name = None
    /\ outcome = "none"
    /\ edited = FALSE
    /\ rerun = FALSE
    /\ runs = 0
    /\ rowsUsed = 0

Init ==
    /\ variant \in {"plain", "zone"}
    /\ files \in InitDirs(variant)
    /\ dirExists = (files # EmptyDir)
    /\ subnetFile \in (IF variant = "zone" THEN BOOLEAN ELSE {TRUE})
    /\ InitRunIdle
    /\ InitZoneIdle
    /\ InitRouteIdle

\* the operator replaces Input/flows.csv
PutCsv ==
    /\ pc = "idle"
    /\ runs < MaxRuns
    /\ ~edited
    /\ edited' = TRUE
    /\ \E b \in Batches(MaxRows - rowsUsed) :
        /\ csv # [present |-> TRUE, df |-> b]
        /\ csv' = [present |-> TRUE, df |-> b]
        /\ rowsUsed' = rowsUsed + Len(b.rows)
    /\ rerun' = FALSE
    /\ UNCHANGED <<dirExists, files, subnetFile, variant, pc, before, isRerun, df_csv,
                   df_excel, last_excel, df_updated, new_name, outcome, runs, zoneVars, routeVars>>

\* the operator removes Input/flows.csv
RemoveCsv ==
    /\ pc = "idle"
    /\ runs < MaxRuns
    /\ ~edited
    /\ edited' = TRUE
    /\ csv.present
    /\ csv' = [present |-> FALSE, df |-> NoFrame]
    /\ rerun' = FALSE
    /\ UNCHANGED <<dirExists, files, subnetFile, variant, pc, before, isRerun, df_csv,
                   df_excel, last_excel, df_updated, new_name, outcome, runs, rowsUsed, zoneVars, routeVars>>

InputsMissing == ~csv.present \/ (variant = "zone" /\ ~subnetFile)

\* update_matrix.py 88-99, UpdateMatrix.py 133-159: the input checks and loads
CheckInputs ==
    /\ pc = "idle"
    /\ runs < MaxRuns
    /\ runs' = runs + 1
    /\ edited' = FALSE
    /\ before' = files
    /\ isRerun' = rerun
    /\ df_excel' = NoFrame
    /\ last_excel' = None
    /\ df_updated' = NoFrame
    /\ new_name' = None
    /\ \/ /\ InputsMissing
          /\ outcome' = "FileNotFoundError"
          /\ df_csv' = NoFrame
          /\ pc' = "idle"
       \/ /\ ~InputsMissing
          /\ outcome' = "running"
          /\ df_csv' = LoadCsv(variant, csv.df)
          /\ pc' = "loaded"
    /\ UNCHANGED <<dirExists, files, csv, subnetFile, variant, rerun, rowsUsed, zoneVars, routeVars>>

\* a load that opens the next version for writing before it reads the latest
LoadLatestOpenFirst ==
    /\ pc = "loaded"
    /\ dirExists' = TRUE
    /\ last_excel' = get_latest_matrix
    /\ \/ /\ last_excel' # None
          /\ ~files[last_excel'].complete
          /\ outcome' = "ReadError"
          /\ pc' = "idle"
          /\ files' = (next_version(last_excel') :> PartialFile) @@ files
          /\ UNCHANGED <<df_excel, new_name>>
       \/ /\ last_excel' # None
          /\ files[last_excel'].complete
          /\ df_excel' = read_excel(files[last_excel'])
          /\ new_name' = next_version(last_excel')
          /\ pc' = "latest"
          /\ UNCHANGED <<outcome, files>>
       \/ /\ last_excel' = None
          /\ df_excel' = EmptyFrame(df_csv.cols)
          /\ new_name' = <<1, 0>>
          /\ pc' = "latest"
          /\ UNCHANGED <<outcome, files>>
    /\ UNCHANGED <<csv, subnetFile, variant, before, isRerun, df_csv, df_updated,
                   rerun, edited, runs, rowsUsed, zoneVars, routeVars>>

\* lines 104-110 (164-170): the latest matrix and the next file name
LoadLatest ==
    /\ pc = "loaded"
    /\ dirExists' = TRUE
    /\ last_excel' = get_latest_matrix
    /\ \/ /\ last_excel' # None
          /\ ~files[last_excel'].complete
          /\ outcome' = "ReadError"
          /\ pc' = "idle"
          /\ UNCHANGED <<df_excel, new_name>>
       \/ /\ last_excel' # None
          /\ files[last_excel'].complete
          /\ df_excel' = read_excel(files[last_excel'])
          /\ new_name' = next_version(last_excel')
          /\ pc' = "latest"
          /\ UNCHANGED outcome
       \/ /\ last_excel' = None
          /\ df_excel' = EmptyFrame(df_csv.cols)
          /\ new_name' = <<1, 0>>
          /\ pc' = "latest"
          /\ UNCHANGED outcome
    /\ UNCHANGED <<files, csv, subnetFile, variant, before, isRerun, df_csv, df_updated,
                   rerun, edited, runs, rowsUsed, zoneVars, routeVars>>

\* lines 115-173 (175-249): the merge
Merge ==
    /\ pc = "latest"
    /\ \/ /\ HasCol(df_csv, "action")
          /\ StrFails(df_csv, "action")
          /\ outcome' = "AttributeError"
          /\ pc' = "idle"
          /\ UNCHANGED df_updated
       \/ /\ ~(HasCol(df_csv, "action") /\ StrFails(df_csv, "action"))
          /\ df_updated' = Reconcile(df_excel, df_csv, variant)
          /\ pc' = "merged"
          /\ UNCHANGED outcome
    /\ UNCHANGED <<dirExists, files, csv, subnetFile, variant, before, isRerun, df_csv,
                   df_excel, last_excel, new_name, rerun, edited, runs, rowsUsed, zoneVars, routeVars>>

\* line 178 (254): to_excel opens the file under its final name
ExportOpen ==
    /\ pc = "merged"
    /\ files' = (new_name :> PartialFile) @@ files
    /\ pc' = "writing"
    /\ UNCHANGED <<dirExists, csv, subnetFile, variant, before, isRerun, df_csv, df_excel,
                   last_excel, df_updated, new_name, outcome, rerun, edited, runs, rowsUsed, zoneVars, routeVars>>

\* line 178 (254): the workbook is saved and the run ends
ExportFinish ==
    /\ pc = "writing"
    /\ files' = [files EXCEPT ![new_name] = to_excel(df_updated)]
    /\ pc' = "idle"
    /\ outcome' = "written"
    /\ rerun' = TRUE
    /\ UNCHANGED <<dirExists, csv, subnetFile, variant, before, isRerun, df_csv, df_excel,
                   last_excel, df_updated, new_name, edited, runs, rowsUsed, zoneVars, routeVars>>

\* the process dies (killed, disk full, an exception of the writer) in the write
Crash ==
    /\ pc = "writing"
    /\ pc' = "idle"
    /\ outcome' = "crashed"
    /\ UNCHANGED <<dirExists, files, csv, subnetFile, variant, before, isRerun, df_csv,
                   df_excel, last_excel, df_updated, new_name, rerun, edited, runs, rowsUsed, zoneVars, routeVars>>

Next == PutCsv \/ RemoveCsv \/ CheckInputs \/ LoadLatest \/ Merge \/ ExportOpen
        \/ ExportFinish \/ Crash

Spec == Init /\ [][Next]_vars

(***************************************************************************)
(* Zone resolution on its own: any address text against any table          *)
(***************************************************************************)
InitZone ==
    /\ variant = "zone"
    /\ files = EmptyDir
    /\ dirExists = FALSE
    /\ subnetFile = TRUE
    /\ InitRunIdle
    /\ zIp \in AddressTexts
    /\ zTable \in SeqsUpTo(SubnetRows, MaxTable)
    /\ zRow = NotFound
    /\ zZone = NaN
    /\ zCalls = {}
    /\ InitRouteIdle

\* DataPopulation.py: ip_to_zone(ip, df_subnets)
ResolveRow ==
    /\ "row" \notin zCalls
    /\ zRow' = ip_to_zone_row(zIp, zTable)
    /\ zCalls' = zCalls \cup {"row"}
    /\ UNCHANGED <<runVars, zIp, zTable, zZone, routeVars>>

\* UpdateMatrix.py: ip_to_zone(ip, df_subnets)
ResolveZone ==
    /\ "zone" \notin zCalls
    /\ zZone' = ip_to_zone(zIp, zTable)
    /\ zCalls' = zCalls \cup {"zone"}
    /\ UNCHANGED <<runVars, zIp, zTable, zRow, routeVars>>

NextZone == ResolveRow \/ ResolveZone

SpecZone == InitZone /\ [][NextZone]_vars

(***************************************************************************)
(* Route resolution on its own: any addresses against any routing table    *)
(***************************************************************************)
InitRoute ==
    /\ variant = "plain"
    /\ files = EmptyDir
    /\ dirExists = FALSE
    /\ subnetFile = TRUE
    /\ InitRunIdle
    /\ InitZoneIdle
    /\ source_ip \in SourceTexts
    /\ dest_ip \in DestTexts
    /\ routes \in SeqsUpTo(RouteEntries, MaxRoutes)
    /\ matching_route = NoRoute
    /\ next_hop = "NO_ROUTE"
    /\ rCalls = {}

\* find_matching_route(dest_ip, routes)
FindRoute ==
    /\ "route" \notin rCalls
    /\ matching_route' = find_matching_route(dest_ip, routes)
    /\ rCalls' = rCalls \cup {"route"}
    /\ UNCHANGED <<runVars, zoneVars, source_ip, dest_ip, routes, next_hop>>

\* calculate_next_hop(source_ip, dest_ip, routes)
NextHop ==
    /\ "hop" \notin rCalls
    /\ next_hop' = calculate_next_hop(source_ip, dest_ip, routes)
    /\ rCalls' = rCalls \cup {"hop"}
    /\ UNCHANGED <<runVars, zoneVars, source_ip, dest_ip, routes, matching_route>>

NextRoute == FindRoute \/ NextHop

SpecRoute == InitRoute /\ [][NextRoute]_vars

(***************************************************************************)
(* Properties of the reconcile runs                                        *)
(***************************************************************************)
\* the last run ended with its matrix written
Written == pc = "idle" /\ outcome = "written"

\* the rows of the matrix the last run wrote, as the file holds them
WrittenRows == files[new_name].rows

\* the keys the batch marks for removal
MarkedKeys ==
    IF HasCol(df_csv, "action")
    THEN {Key(df_csv.rows[j]) : j \in {k \in DOMAIN df_csv.rows :
                                        Lower(df_csv.rows[k]["action"]) = "supprimer"}}
    ELSE {}

\* the positions of the block-all rows of a matrix
BlockAllAt(rows) ==
    {i \in DOMAIN rows : /\ rows[i]["source"] = "any"
                         /\ rows[i]["destination"] = "any"
                         /\ Lower(rows[i]["action"]) = "block"}

\* C1: after every successful run the written matrix holds exactly one
\* any/any/block row; it is the last row and its ID is the number of rows.
C1_OneBlockAllLast ==
    Written =>
        /\ WrittenRows # <<>>
        /\ BlockAllAt(WrittenRows) = {Len(WrittenRows)}
        /\ WrittenRows[Len(WrittenRows)]["action"] = "block"
        /\ WrittenRows[Len(WrittenRows)]["ID"] = Len(WrittenRows)

\* C1 witness: a run on a previous matrix whose batch holds an any/any/block
\* row and a removal marker for the key (any, any, any, any).
C1_Witness ==
    /\ Written
    /\ last_excel # None
    /\ \E i \in DOMAIN df_csv.rows : IsBlockAll(df_csv.rows[i])
    /\ KAny \in MarkedKeys

\* C2: after every run the ID column of the written matrix is 1..N in row
\* order.
C2_DenseIDs ==
    Written => \A i \in DOMAIN WrittenRows : WrittenRows[i]["ID"] = i

\* the batch records that carry key k
RecordsOf(k) == {j \in DOMAIN df_csv.rows : Key(df_csv.rows[j]) = k}

\* C3: a record of the batch whose key the previous matrix has, and that is
\* not removal-marked, gives the row of that key its value in every field it
\* carries (one record per key, so that "the incoming value" is one value).
C3_IncomingWins ==
    Written =>
        \A j \in DOMAIN df_csv.rows :
            LET r == df_csv.rows[j]
            IN  (/\ Key(r) \in Keys(df_excel.rows)
                 /\ Key(r) \notin MarkedKeys
                 /\ RecordsOf(Key(r)) = {j})
                => \E i \in DOMAIN WrittenRows :
                      /\ Key(WrittenRows[i]) = Key(r)
                      /\ \A c \in Range(df_csv.cols) :
                            r[c] # NaN => WrittenRows[i][c] = r[c]

\* C4 as stated: no row of the new matrix has the key of a removal-marked
\* record of the batch.
C4_RemovedEverywhere ==
    Written => \A i \in DOMAIN WrittenRows : Key(WrittenRows[i]) \notin MarkedKeys

\* C4 amended: no row of the new matrix other than the re-appended catch-all
\* (the last row) has the key of a removal-marked record of the batch.
C4_RemovedButCatchAll ==
    Written =>
        \A i \in DOMAIN WrittenRows :
            i < Len(WrittenRows) => Key(WrittenRows[i]) \notin MarkedKeys

\* C4 witness: the batch marks a key of the previous matrix for removal and
\* also carries an update record for it.
C4_Witness ==
    /\ Written
    /\ \E j, k \in DOMAIN df_csv.rows :
          /\ Key(df_csv.rows[j]) = Key(df_csv.rows[k])
          /\ Lower(df_csv.rows[j]["action"]) = "supprimer"
          /\ Lower(df_csv.rows[k]["action"]) # "supprimer"
          /\ Key(df_csv.rows[j]) \in Keys(df_excel.rows)

\* C5: a run that merges again the batch of the last successful run, the
\* batch holding no removal marker, writes the rows that run wrote: the same
\* keys in the same order with the same field values, IDs included.
C5_Idempotent ==
    (Written /\ isRerun /\ MarkedKeys = {}) =>
        /\ WrittenRows = before[last_excel].rows
        /\ Range(files[new_name].cols) = Range(before[last_excel].cols)

\* the version a run is to write given the versions it found
ExpectedVersion(found, nv) ==
    IF found = {} THEN nv = <<1, 0>>
    ELSE \E m \in found :
            /\ \A w \in found : w = m \/ w[1] < m[1] \/ (w[1] = m[1] /\ w[2] < m[2])
            /\ nv = <<m[1], m[2] + 1>>

\* C6: a run that writes, writes one file: 1.0 when there was none, else the
\* numerically greatest version with its minor number plus one; it is
\* greater than every version there was.
C6_NextVersion ==
    Written =>
        /\ DOMAIN files = DOMAIN before \cup {new_name}
        /\ new_name \notin DOMAIN before
        /\ ExpectedVersion(DOMAIN before, new_name)
        /\ \A w \in DOMAIN before :
              w[1] < new_name[1] \/ (w[1] = new_name[1] /\ w[2] < new_name[2])

\* C6 witness: versions 1.9 and 1.10 exist and the run writes 1.11.
C6_Witness ==
    /\ Written
    /\ {<<1, 9>>, <<1, 10>>} \subseteq DOMAIN before
    /\ new_name = <<1, 11>>

\* C7: every version file there was when the run started is still there,
\* unchanged; the file being written has a name none of them had.
C7_AppendOnly ==
    /\ \A v \in DOMAIN before : v \in DOMAIN files /\ files[v] = before[v]
    /\ (pc = "writing" \/ Written) => new_name \notin DOMAIN before

\* C7 witness: a run has written next to earlier versions.
C7_Witness == Written /\ DOMAIN before # {} /\ DOMAIN files # DOMAIN before

\* C8: no version file is visible half written once a run has ended.
C8_NoPartialVisible ==
    pc = "idle" => \A v \in DOMAIN files : files[v].complete

\* the latest version there was when the run started cannot be read
LatestUnreadable ==
    \E v \in DOMAIN before :
        /\ \A w \in DOMAIN before : ~VersionLess(v, w)
        /\ ~before[v].complete

\* C9: a run whose input file is missing, or whose latest matrix cannot be
\* read, ends with an error and the version files are as they were.
C9_AllOrNothing ==
    (pc = "idle" /\ runs > 0 /\ ~edited) =>
        /\ InputsMissing => outcome = "FileNotFoundError"
        /\ (~InputsMissing /\ LatestUnreadable) => outcome = "ReadError"
        /\ outcome \in {"FileNotFoundError", "ReadError"} => files = before

\* C9 witness: a run found the latest matrix unreadable.
C9_Witness == pc = "idle" /\ outcome = "ReadError" /\ LatestUnreadable

\* a row of a matrix file has an empty zone cell for one of its addresses
ZoneMissing(r) == r["zone_source"] \in {NaN, ""} \/ r["zone_destination"] \in {NaN, ""}

\* C11: the reconcile run of UpdateMatrix.py never writes a matrix row whose
\* source or destination zone is missing: a record whose address resolves to
\* no zone stops the run instead.
C11_NoMissingZone ==
    (Written /\ variant = "zone") =>
        \A i \in DOMAIN WrittenRows : ~ZoneMissing(WrittenRows[i])

\* C15: after every run no two rows of the written matrix other than the
\* catch-all (the last row) have the same (source, destination, port,
\* protocol), also when the batch holds a new key in two records.
C15_NoDuplicateKeys ==
    Written =>
        \A i, j \in 1..(Len(WrittenRows) - 1) :
            i # j => Key(WrittenRows[i]) # Key(WrittenRows[j])

\* the keys of the rows of a list, in row order
KeySeq(rows) == [i \in DOMAIN rows |-> Key(rows[i])]

\* the catch-all rule: every key field is "any" and the action is block
IsCatchAll(r) == Key(r) = KAny /\ Lower(r["action"]) = "block"

\* the rows of the previous matrix that stay, then the new records of the
\* batch, where skip(r) tells the rows that are left out of the comparison
KeptThenNew(skip(_)) ==
    KeySeq(SelectSeq(df_excel.rows, LAMBDA r : ~skip(r) /\ Key(r) \notin MarkedKeys))
    \o KeySeq(SelectSeq(df_csv.rows, LAMBDA r : /\ ~skip(r)
                                                /\ Key(r) \notin Keys(df_excel.rows)
                                                /\ Key(r) \notin MarkedKeys))

\* C17 as stated: the rows of the new matrix other than the catch-all are the
\* rows of the previous matrix other than the catch-all whose key is not
\* removal-marked, in their order, then the records of the batch whose key
\* the previous matrix did not have and that is not removal-marked, in batch
\* order.
C17_KeepAndAppend ==
    Written =>
        KeySeq(SelectSeq(WrittenRows, LAMBDA r : ~IsCatchAll(r))) = KeptThenNew(IsCatchAll)

\* C17 amended: the same, where the rows left out on both sides are those
\* with source "any", destination "any" and action block, whatever their
\* port and protocol: such a record of the batch is not appended.
C17_KeepAndAppendButBlockAll ==
    Written =>
        KeySeq(SelectSeq(WrittenRows, LAMBDA r : ~IsBlockAll(r))) = KeptThenNew(IsBlockAll)

\* C17 witness: the run kept a row of the previous matrix and appended a
\* record with a new key behind it.
C17_Witness ==
    /\ Written
    /\ K1 \in Keys(df_excel.rows)
    /\ K2 \notin Keys(df_excel.rows)
    /\ \E j \in DOMAIN df_csv.rows : Key(df_csv.rows[j]) = K2
    /\ KeySeq(WrittenRows) = <<K1, K2, KAny>>

(***************************************************************************)
(* Properties of zone resolution                                           *)
(***************************************************************************)
\* the rows of the table whose network contains the address
Containing(ip, table) ==
    {i \in DOMAIN table : InNetwork(ip_address(ip), table[i]["sous-reseau"])}

\* every network text of the first n rows parses
WellFormedTo(table, n) ==
    \A i \in 1..n : ~NetworkError(table[i]["sous-reseau"])

\* the result the claim gives for a parseable address: the first containing
\* row in table order, NotFound when there is none
FirstContaining(ip, table) ==
    IF Containing(ip, table) = {} THEN NotFound
    ELSE CHOOSE i \in Containing(ip, table) : \A j \in Containing(ip, table) : i <= j

Overlap == <<SubnetRow("10.0.0.0/8", "ZoneA", "Production"),
             SubnetRow("10.1.0.0/16", "ZoneB", "Admin")>>

MatchingEntries(dst, table) ==
    {i \in DOMAIN table : /\ RouteParses(table[i])
                          /\ RouteMatches(ip_address(dst), table[i])}

DefaultFirst == <<Route("0.0.0.0/0", "9.9.9.9"), Route("192.168.1.0/24", "10.0.0.1")>>

\* C12: find_matching_route returns, among the well-formed entries whose
\* network contains the destination, one of the longest prefix length,
\* wherever it stands in the table; the default route only when no other
\* entry contains the destination, also when the default route comes first.
C12_LongestPrefix ==
    ("route" \in rCalls /\ ~AddressError(dest_ip)) =>
        LET M == MatchingEntries(dest_ip, routes)
        IN  /\ M = {} => matching_route = NoRoute
            /\ M # {} =>
                  /\ matching_route \in M
                  /\ \A j \in M : PrefixLen(routes[j]) <= PrefixLen(routes[matching_route])
                  /\ routes[matching_route].Address = "0.0.0.0/0" =>
                        \A j \in M : routes[j].Address = "0.0.0.0/0"
            /\ (routes = DefaultFirst /\ dest_ip = "192.168.1.5") =>
                  routes[matching_route].Gateway = "10.0.0.1"

\* C12 witness: the default route stands first, the destination is outside
\* the /24 of the source and the /24 route behind the default is returned.
C12_Witness ==
    /\ "route" \in rCalls
    /\ routes = DefaultFirst
    /\ dest_ip = "192.168.1.5"
    /\ ~is_same_network(source_ip, dest_ip)
    /\ matching_route = 2

\* both texts are addresses and the first 24 bits of the two are the same
InSource24(src, dst) ==
    /\ ~AddressError(src)
    /\ ~AddressError(dst)
    /\ ip_address(src).hi = ip_address(dst).hi
    /\ ip_address(src).lo \div 256 = ip_address(dst).lo \div 256

\* C13: when the destination lies in the /24 network of the source,
\* calculate_next_hop returns DIRECT whatever the routing table holds.
C13_SameNetworkDirect ==
    ("hop" \in rCalls /\ InSource24(source_ip, dest_ip)) => next_hop = "DIRECT"

\* C13 witness: DIRECT was returned for a destination in the /24 of the
\* source although the table has a gateway default route and a gateway /24
\* route that contains the destination.
C13_Witness ==
    /\ "hop" \in rCalls
    /\ source_ip = "192.168.1.5"
    /\ dest_ip = "192.168.1.0"
    /\ routes = DefaultFirst
    /\ next_hop = "DIRECT"

\* the entries that match the destination text; none when it is no address
MatchesOf(dst, table) ==
    IF AddressError(dst) THEN {} ELSE MatchingEntries(dst, table)

\* the next hop the claim gives for a selected entry
HopOf(route) ==
    IF route.Gateway \in {NoKey, ""} THEN "DIRECT" ELSE route.Gateway

\* C14: for a destination outside the /24 of the source, calculate_next_hop
\* returns the gateway of the selected route when it has a non-empty one,
\* DIRECT when its gateway is missing or empty, and NO_ROUTE exactly when no
\* entry matches; the result is DIRECT, NO_ROUTE or a gateway of the table,
\* and a destination text that is no address gives NO_ROUTE.
C14_ResultMapping ==
    ("hop" \in rCalls /\ ~InSource24(source_ip, dest_ip)) =>
        LET M == MatchesOf(dest_ip, routes)
        IN  /\ (next_hop = "NO_ROUTE") <=> (M = {})
            /\ M # {} =>
                  \E i \in M :
                     /\ \A j \in M : PrefixLen(routes[j]) <= PrefixLen(routes[i])
                     /\ next_hop = HopOf(routes[i])
            /\ ("route" \in rCalls /\ M # {}) => next_hop = HopOf(routes[matching_route])
            /\ \/ next_hop \in {"DIRECT", "NO_ROUTE"}
               \/ \E i \in DOMAIN routes : next_hop = routes[i].Gateway
            /\ next_hop \notin {NoKey, ""}
            /\ AddressError(dest_ip) => next_hop = "NO_ROUTE"

\* C14 witness: the /24 route selected for a destination outside the /24 of
\* the source has an empty gateway, a gateway default route stands behind
\* it, and DIRECT was returned.
C14_Witness ==
    /\ "hop" \in rCalls
    /\ source_ip = "10.1.2.3"
    /\ dest_ip = "192.168.1.5"
    /\ routes = <<Route("192.168.1.0/24", ""), Route("0.0.0.0/0", "9.9.9.9")>>
    /\ next_hop = "DIRECT"

\* the table without its malformed entries
WellFormedEntries(table) == SelectSeq(table, LAMBDA r : RouteParses(r))

\* the number of well-formed entries among the first i of the table
Rank(table, i) == Cardinality({j \in 1..i : RouteParses(table[j])})

\* C16: find_matching_route skips the entries whose Address is missing or
\* is no network text (host bits set included): it returns the route it
\* returns on the table without them, the same entry at the same place
\* among the well-formed ones, and None when that lookup returns None.
C16_MalformedSkipped ==
    "route" \in rCalls =>
        LET clean == WellFormedEntries(routes)
            m     == find_matching_route(dest_ip, clean)
        IN  /\ matching_route \in {NoRoute} \cup DOMAIN routes
            /\ matching_route = NoRoute <=> m = NoRoute
            /\ matching_route # NoRoute =>
                  /\ RouteParses(routes[matching_route])
                  /\ Rank(routes, matching_route) = m
                  /\ routes[matching_route] = clean[m]

\* C16 witness: an entry with host bits set that would contain the
\* destination and an entry without Address stand before the route returned.
C16_Witness ==
    /\ "route" \in rCalls
    /\ dest_ip = "10.1.2.3"
    /\ routes = <<Route("10.1.2.3/16", "10.0.0.4"), Route(NoKey, "10.0.0.6"),
                  Route("10.0.0.0/8", "10.0.0.2")>>
    /\ matching_route = 3

====
